---- MODULE Spec2Model ----
(***************************************************************************)
(* A model of smallsh (seiferjo.smallsh.c, printed in src/README.md lines  *)
(* 10-357): the shell loop of main, parseCommandLine, runBuiltIn and       *)
(* runCommand, together with the children it forks and the signals the     *)
(* terminal and other processes deliver to them.                           *)
(***************************************************************************)
EXTENDS Integers, Sequences, FiniteSets, TLC

(***************************************************************************)
(* Bounds of the model.                                                    *)
(***************************************************************************)
\* number of children the shell forks in one run (pids 1..MaxPid)
MaxPid == 2
\* number of tokens of the lines the parser is given on its own
MaxTokens == 5

\* the shell's own process, and the children it can fork
Shell == 0
Children == 1..MaxPid
Procs == {Shell} \cup Children

(***************************************************************************)
(* Program constants.                                                      *)
(***************************************************************************)
\* #define COMMAND_LINE_ARG 512: the slots of args in struct job
COMMAND_LINE_ARG == 512
SIGINT == 2
SIGTERM == 15
SIGSTOP == 19
\* a NULL char pointer (strtok at the end of the line, getenv of an unset name)
NULL == "(null)"
\* the first character of a line read at end of input
NUL == "NUL"
\* bytes of a buffer that malloc returned and nothing has written
Garbage == "(garbage)"

\* directories chdir can enter; every other path makes chdir fail
Dirs == {"start", "home", "dir"}
\* names execvp can resolve
Programs == {"prog"}
\* files that exist when the shell starts
InitFiles == {"in"}
\* exit codes a program may pass to exit
ExitCodes == {0, 255}
\* values the HOME environment variable may have: a directory, a path that
\* is no directory, and NULL from getenv when HOME is not set
HomeValues == {"home", "nohome", NULL}

\* a line the user may type: rawInput[0] and the tokens strtok yields
Line(first, toks) == [first |-> first, toks |-> toks]
\* lines that are about running programs
JobLines ==
  { Line("\n", <<>>),
    Line("#", <<"#", "prog">>),
    Line(NUL, <<>>),
    Line("&", <<"&">>),
    Line("e", <<"exit">>),
    Line("s", <<"status">>),
    Line("s", <<"status", "&">>),
    Line("p", <<"prog">>),
    Line("p", <<"prog", "&">>),
    Line("n", <<"nocmd">>) }
\* lines that are about the builtins
BuiltInLines ==
  { Line("\n", <<>>),
    Line("s", <<"status">>),
    Line("c", <<"cd", "dir">>),
    Line("c", <<"cd", "nodir">>),
    Line("c", <<"cd">>),
    Line("p", <<"prog">>) }
\* lines that fork nothing
QuietLines ==
  { Line("\n", <<>>),
    Line("#", <<"#", "prog">>),
    Line(" ", <<>>),
    Line("&", <<"&">>),
    Line("<", <<"<", "in">>),
    Line(">", <<">", "outf">>),
    Line(">", <<">", "outf", "&">>),
    Line("c", <<"cd">>),
    Line("c", <<"cd", "dir">>),
    Line("c", <<"cd", "nodir">>),
    Line("c", <<"cd", "dir", "&">>),
    Line("s", <<"status">>),
    Line("s", <<"status", ">", "outf">>),
    Line("s", <<"status", "<", "noin", "&">>),
    Line("e", <<"exit", ">", "outf", "&">>) }
\* lines that redirect the input and the output of a program
RedirectLines ==
  { Line("p", <<"prog", "<">>),
    Line("p", <<"prog", ">">>),
    Line("p", <<"prog", "<", "noin", ">", "in">>),
    Line("p", <<"prog", "<", "in", ">", "outf">>),
    Line("s", <<"status">>) }
\* lines of the sessions in which open and dup2 may fail for want of
\* resources: one of foreground commands, one of background commands
FaultLines ==
  { Line("s", <<"status">>),
    Line("p", <<"prog", "<", "in", ">", "outf">>) }
FaultJobLines ==
  { Line("s", <<"status">>),
    Line("p", <<"prog", "&">>) }
\* rawInput before the first getline
NoLine == Line(NULL, <<>>)
\* a session: the lines its user types, and whether open and dup2 may fail
\* for want of resources
Session(lines, faults) == [lines |-> lines, faults |-> faults]
Sessions ==
  {Session(JobLines, FALSE), Session(BuiltInLines, FALSE), Session(QuietLines, FALSE),
   Session(RedirectLines, FALSE)}
\* at end of input getline returns -1 and leaves the buffer it allocated
\* unwritten; main reads rawInput[0] all the same: it may be '\0', or
\* whatever the heap held, which strtok then splits into no word or some
EndOfInput(s) == \E line \in s.lines : line.first = NUL
GarbageLines == {Line(Garbage, <<>>), Line(Garbage, <<Garbage>>)}
\* the lines readCommandLine may return in a session
Reads(s) == s.lines \cup (IF EndOfInput(s) THEN GarbageLines ELSE {})
\* HOME in a session: every value where nothing is forked, a directory in
\* the others
HomesOf(s) == IF s.lines = QuietLines THEN HomeValues ELSE {"home"}

(***************************************************************************)
(* The wait status word and the macros of <sys/wait.h> that read it.       *)
(***************************************************************************)
\* status of a child that called exit(code)
W_EXITCODE(code) == code * 256
\* status of a child terminated by signal sig
W_TERMSIG(sig) == sig
\* status of a child stopped by signal sig, as WUNTRACED reports it
W_STOPCODE(sig) == sig * 256 + 127

WTERMSIG(s) == s % 128
\* the exit code, were the shift forgotten
WEXITSTATUS_NoShift(s) == s % 256
WEXITSTATUS(s) == (s \div 256) % 256
WIFEXITED(s) == WTERMSIG(s) = 0
WIFSIGNALED(s) == WTERMSIG(s) >= 1 /\ WTERMSIG(s) <= 126
WIFSTOPPED(s) == s % 256 = 127

\* what the uninitialised local `int status` of runCommand may hold
GarbageStatus == {W_EXITCODE(0), W_TERMSIG(SIGINT), W_STOPCODE(SIGSTOP)}

(***************************************************************************)
(* printf / sprintf formats.                                               *)
(***************************************************************************)
FmtExitValue(n) == "exit value " \o ToString(n)
\* the signal text, were it written without the final period
FmtTerminated_NoPeriod(n) == "terminated by signal " \o ToString(n)
FmtTerminated(n) == "terminated by signal " \o ToString(n) \o "."
FmtBackgroundPid(p) == "background pid is " \o ToString(p)
FmtDoneExit(p, n) ==
  "background pid " \o ToString(p) \o " is done: exit value " \o ToString(n) \o "."
FmtDoneSignal(p, n) ==
  "background pid " \o ToString(p) \o " is done: terminated by signal "
    \o ToString(n) \o "."
FmtCdError(path) == path \o ": no such file or directory"
FmtCannotOpen(path) == "smallsh: cannot open " \o path \o " for input"
FmtNoSuchCommand(cmd) == cmd \o ": no such file or directory"

(***************************************************************************)
(* parseCommandLine: walks the tokens of the line and fills the job.       *)
(***************************************************************************)
\* strtok(NULL, ...) past the last token keeps returning NULL
TokenAt(toks, i) == IF i <= Len(toks) THEN toks[i] ELSE NULL

\* the walk, were the path of a redirection left for the next round
RECURSIVE ParseFrom_PathKept(_, _, _)
ParseFrom_PathKept(toks, i, job) ==
  IF i > Len(toks) THEN job
  ELSE IF toks[i] = "<"
       THEN ParseFrom_PathKept(toks, i + 1,
                      [job EXCEPT !.isInput = 1, !.inFile = TokenAt(toks, i + 1)])
  ELSE IF toks[i] = ">"
       THEN ParseFrom_PathKept(toks, i + 1,
                      [job EXCEPT !.isOutput = 1, !.outFile = TokenAt(toks, i + 1)])
  ELSE IF toks[i] = "&"
       THEN ParseFrom_PathKept(toks, i + 1, [job EXCEPT !.isBackground = 1])
  ELSE ParseFrom_PathKept(toks, i + 1,
                 [job EXCEPT !.args = Append(job.args, toks[i]),
                             !.argCount = job.argCount + 1])

\* the walk, were the test for "&" left out
RECURSIVE ParseFrom_NoBackground(_, _, _)
ParseFrom_NoBackground(toks, i, job) ==
  IF i > Len(toks) THEN job
  ELSE IF toks[i] = "<"
       THEN ParseFrom_NoBackground(toks, i + 2,
                      [job EXCEPT !.isInput = 1, !.inFile = TokenAt(toks, i + 1)])
  ELSE IF toks[i] = ">"
       THEN ParseFrom_NoBackground(toks, i + 2,
                      [job EXCEPT !.isOutput = 1, !.outFile = TokenAt(toks, i + 1)])
  ELSE ParseFrom_NoBackground(toks, i + 1,
                 [job EXCEPT !.args = Append(job.args, toks[i]),
                             !.argCount = job.argCount + 1])

RECURSIVE ParseFrom(_, _, _)
ParseFrom(toks, i, job) ==
  IF i > Len(toks) THEN job
  ELSE IF toks[i] = "<"
       THEN ParseFrom(toks, i + 2,
                      [job EXCEPT !.isInput = 1, !.inFile = TokenAt(toks, i + 1)])
  ELSE IF toks[i] = ">"
       THEN ParseFrom(toks, i + 2,
                      [job EXCEPT !.isOutput = 1, !.outFile = TokenAt(toks, i + 1)])
  ELSE IF toks[i] = "&"
       THEN ParseFrom(toks, i + 1, [job EXCEPT !.isBackground = 1])
  ELSE ParseFrom(toks, i + 1,
                 [job EXCEPT !.args = Append(job.args, toks[i]),
                             !.argCount = job.argCount + 1])

\* the job after parseCommandLine(rawInput, &parsedInput); args holds the
\* entries before the NULL that caps the list
parseCommandLine(toks, job) == ParseFrom(toks, 1, [job EXCEPT !.args = <<>>])

\* args[i] of the capped list (0-based as in the source)
Arg(job, i) == IF i < Len(job.args) THEN job.args[i + 1] ELSE NULL

\* the top of the loop of main resets the flags and the count; args, inFile
\* and outFile point into the line of the last iteration, which is freed, and
\* are written again before they are read
ResetJob(job) ==
  [job EXCEPT !.isInput = 0, !.isOutput = 0, !.isBackground = 0, !.argCount = 0,
              !.args = <<>>, !.inFile = NULL, !.outFile = NULL]

(***************************************************************************)
(* State.                                                                  *)
(***************************************************************************)
VARIABLES
  pc,           \* where the shell is: "prompt" (in getline), "loop", "reap", "done", "killed"
  parsedInput,  \* main: struct job parsedInput (exitStatus is the last status text)
  pid,          \* runCommand: pid_t pid
  status,       \* runCommand: int status
  child,        \* the children forked so far, by pid
  sigint,       \* the SIGINT disposition of every process
  cwd,          \* the shell's working directory
  home,         \* the value of HOME in the shell's environment
  fs,           \* the files redirections name: content, or Absent
  out,          \* what the shell printed for the last line read, up to the prompt
  nextPid,      \* the pid the next fork returns
  noticed,      \* pids whose "background pid is" notice has been printed
  prev,         \* what the shell did with the last line read
  rawInput,     \* main: char *rawInput, the last line read
  token,        \* parseCommandLine: char *token, as the place of the token in the line
  session,      \* the lines this run of the shell is given
  stdio,        \* what the shell's descriptors 0 and 1 are connected to
  collected,    \* the children the non-blocking waits of the running
                \* runCommand have collected so far
  otp,          \* otp_dec and the child of otp_dec_d serving it, with the
                \* two directions of the socket between them
  dec,          \* the bytes of a decoding: the two files of otp_dec, the
                \* buffers of otp_dec_d, what otp_dec has printed
  adv           \* the adventure game's createRooms: its locals and the
                \* state of the random number generator

vars == <<pc, parsedInput, pid, status, child, sigint, cwd, home, fs, out,
          nextPid, noticed, prev, rawInput, token, session, collected,
          stdio, otp, dec, adv>>

\* what no step of the shell or of a child changes (parseCommandLine runs
\* within one step of main, which leaves token alone)
fixed == <<home, session, token, stdio, otp, dec, adv>>

\* no decoding is going on: the client has left, and so has the daemon's child
OtpIdle ==
  [len |-> 0, cpc |-> "done", off |-> 0, n |-> 0, closed |-> TRUE,
   flight |-> <<>>, avail |-> 0, taken |-> 0,
   dpc |-> "done", m |-> 0, ctFrom |-> 0, keyFrom |-> 0, keyGot |-> 0,
   dflight |-> <<>>, davail |-> 0, got |-> 0]

\* createRooms is not running
AdvIdle ==
  [pc |-> "idle", next |-> 0, i |-> 0, j |-> 0, roomArray |-> <<>>,
   roomNameAvailable |-> <<>>, startRoom |-> 0, endRoom |-> 0]

\* no bytes are being decoded
DecIdle ==
  [pc |-> "done", ciphertext |-> <<>>, key |-> <<>>, off |-> 0,
   ciphertextBuffer |-> <<>>, keyBuffer |-> <<>>, plaintextBuffer |-> <<>>,
   printed |-> <<>>]

Absent == "(absent)"
FileNames == {"in", "outf"}
\* the terminal the shell's standard streams are connected to
Tty == "tty"
DevNull == "/dev/null"
Prompt == ": "

\* a slot of the process table that fork has not used yet
NoChild ==
  [pc |-> "none", isBackground |-> 0, isInput |-> 0, inFile |-> NULL,
   isOutput |-> 0, outFile |-> NULL, cmd |-> NULL, wstatus |-> 0,
   reported |-> FALSE, stdin |-> Tty, stdout |-> Tty, msgs |-> <<>>]

\* the child right after fork: a copy of the shell's memory and descriptors
ForkedChild(job) ==
  [NoChild EXCEPT !.pc = "sigaction", !.isBackground = job.isBackground,
                  !.stdin = stdio.stdin, !.stdout = stdio.stdout,
                  !.isInput = job.isInput, !.inFile = job.inFile,
                  !.isOutput = job.isOutput, !.outFile = job.outFile,
                  !.cmd = Arg(job, 0)]

\* a child a wait has collected: the process is gone
Reaped == [NoChild EXCEPT !.pc = "reaped"]

\* struct job parsedInput when the shell first waits for a line
InitJob ==
  [args |-> <<>>, isInput |-> 0, inFile |-> NULL, isOutput |-> 0,
   outFile |-> NULL, isBackground |-> 0, argCount |-> 0, exitStatus |-> "none"]

\* what the shell did with a line: kind, the wait status of the child it ran
\* in the foreground, the target of cd
Prev(kind, s, a) == [kind |-> kind, wstatus |-> s, arg |-> a]

Init ==
  /\ pc = "prompt"
  /\ parsedInput = InitJob
  /\ pid = 0
  /\ status = 0
  /\ child = [p \in Children |-> NoChild]
  /\ sigint = [p \in Procs |-> "SIG_IGN"]
  /\ cwd = "start"
  /\ fs = [f \in FileNames |-> IF f \in InitFiles THEN "data" ELSE Absent]
  /\ out = <<Prompt>>
  /\ nextPid = 1
  /\ noticed = {}
  /\ prev = Prev("start", 0, NULL)
  /\ rawInput = NoLine
  /\ token = 0
  /\ collected = {}
  /\ stdio = [stdin |-> Tty, stdout |-> Tty]
  /\ otp = OtpIdle
  /\ dec = DecIdle
  /\ adv = AdvIdle
  /\ session \in Sessions
  /\ home \in HomesOf(session)

(***************************************************************************)
(* main: one iteration of the loop, from one getline to the next.          *)
(***************************************************************************)
\* the end of an iteration and the top of the next: flags reset, prompt
\* printed, the shell waits in getline
NextPrompt(job, printed, kind, s) ==
  /\ parsedInput' = ResetJob(job)
  /\ out' = Append(printed, Prompt)
  /\ prev' = Prev(kind, s, IF kind = "cd" THEN Arg(job, 1) ELSE NULL)
  /\ pc' = "prompt"

\* the lines handed to parseCommandLine, were the comment test left out
Parsed_NoComment(line) == line.first \notin {"\n", NUL}

\* the lines main hands to parseCommandLine
Parsed(line) == line.first \notin {"\n", "#", NUL}
ParsedJob(line) == parseCommandLine(line.toks, parsedInput)

\* rawInput[0] == '\n' || rawInput[0] == '#': continue
MainSkip ==
  /\ pc = "prompt"
  /\ \E line \in Reads(session) :
       /\ line.first \in {"\n", "#"}
       /\ rawInput' = line
       /\ NextPrompt(parsedInput, <<>>, "skip", 0)
  /\ UNCHANGED <<pid, status, child, sigint, cwd, fixed, collected, fs, nextPid, noticed>>

\* rawInput[0] == '\0' at end of input: break, exit(0)
MainEOF ==
  /\ pc = "prompt"
  /\ \E line \in Reads(session) : line.first = NUL /\ rawInput' = line
  /\ pc' = "done"
  /\ out' = <<>>
  /\ prev' = Prev("eof", 0, NULL)
  /\ UNCHANGED <<parsedInput, pid, status, child, sigint, cwd, fixed, collected, fs, nextPid,
                 noticed>>

\* argCount == 0: continue
MainNoArgs ==
  /\ pc = "prompt"
  /\ \E line \in Reads(session) :
       /\ Parsed(line)
       /\ ParsedJob(line).argCount = 0
       /\ rawInput' = line
       /\ NextPrompt(ParsedJob(line), <<>>, "noargs", 0)
  /\ UNCHANGED <<pid, status, child, sigint, cwd, fixed, collected, fs, nextPid, noticed>>

\* args[0] is "exit": break, exit(0)
MainExit ==
  /\ pc = "prompt"
  /\ \E line \in Reads(session) :
       /\ Parsed(line)
       /\ ParsedJob(line).argCount > 0
       /\ Arg(ParsedJob(line), 0) = "exit"
       /\ parsedInput' = ParsedJob(line)
       /\ rawInput' = line
  /\ pc' = "done"
  /\ out' = <<>>
  /\ prev' = Prev("exit", 0, NULL)
  /\ UNCHANGED <<pid, status, child, sigint, cwd, fixed, collected, fs, nextPid, noticed>>

(***************************************************************************)
(* runBuiltIn: "status" and "cd", run by the shell itself.                 *)
(***************************************************************************)
\* chdir(path) == 0
chdir(path) == path \in Dirs
\* the working directory, were it taken from the argument whatever chdir said
DirAfter_Unchecked(path, dir) == path

\* the working directory after chdir(path)
DirAfter(path, dir) == IF chdir(path) THEN path ELSE dir

\* the status text after sprintf/strcpy of a new text
SetExitStatus(job, text) == [job EXCEPT !.exitStatus = text]

\* status, were the text reset before it is printed
BuiltInStatus_ResetFirst(job) ==
  /\ NextPrompt(SetExitStatus(job, FmtExitValue(0)), <<FmtExitValue(0)>>,
                "status", 0)
  /\ UNCHANGED cwd

\* printf("%s\n", exitStatus); strcpy(exitStatus, "exit value 0")
BuiltInStatus(job) ==
  /\ NextPrompt(SetExitStatus(job, FmtExitValue(0)), <<job.exitStatus>>,
                "status", 0)
  /\ UNCHANGED cwd

\* cd with a target: chdir(args[1]), message and "exit value 1" on failure
BuiltInCdPath(job) ==
  /\ cwd' = DirAfter(Arg(job, 1), cwd)
  /\ IF chdir(Arg(job, 1))
       THEN NextPrompt(SetExitStatus(job, FmtExitValue(0)), <<>>, "cd", 0)
       ELSE NextPrompt(SetExitStatus(job, FmtExitValue(1)),
                       <<FmtCdError(Arg(job, 1))>>, "cd", 0)

\* cd without a target, were the result of chdir checked as it is for a
\* target
BuiltInCdHome_Checked(job) ==
  /\ cwd' = DirAfter(home, cwd)
  /\ IF chdir(home)
       THEN NextPrompt(SetExitStatus(job, FmtExitValue(0)), <<>>, "cd", 0)
       ELSE NextPrompt(SetExitStatus(job, FmtExitValue(1)), <<>>, "cd", 0)

\* cd without a target: chdir(getenv("HOME")), result not checked
BuiltInCdHome(job) ==
  /\ cwd' = DirAfter(home, cwd)
  /\ NextPrompt(SetExitStatus(job, FmtExitValue(0)), <<>>, "cd", 0)

runBuiltIn(job) ==
  IF Arg(job, 0) = "status" THEN BuiltInStatus(job)
  ELSE IF Arg(job, 1) # NULL THEN BuiltInCdPath(job)
  ELSE BuiltInCdHome(job)

\* args[0] is "cd" or "status": runBuiltIn, free, next iteration
MainBuiltIn ==
  /\ pc = "prompt"
  /\ \E line \in Reads(session) :
       /\ Parsed(line)
       /\ ParsedJob(line).argCount > 0
       /\ Arg(ParsedJob(line), 0) \in {"cd", "status"}
       /\ runBuiltIn(ParsedJob(line))
       /\ rawInput' = line
  /\ UNCHANGED <<pid, status, child, sigint, fixed, collected, fs, nextPid, noticed>>

(***************************************************************************)
(* runCommand, in the shell: fork, the wait loop, the final reap.          *)
(***************************************************************************)
\* the lines handed to runCommand, were a builtin with "&" run as a job
IsCommand_BackgroundBuiltIn(line) ==
  /\ Parsed(line)
  /\ ParsedJob(line).argCount > 0
  /\ \/ Arg(ParsedJob(line), 0) \notin {"exit", "cd", "status"}
     \/ ParsedJob(line).isBackground = 1

\* the lines main hands to runCommand
IsCommand(line) ==
  /\ Parsed(line)
  /\ ParsedJob(line).argCount > 0
  /\ Arg(ParsedJob(line), 0) \notin {"exit", "cd", "status"}

\* children that have terminated and have not been waited for
Zombies == {p \in Children : child[p].pc = "zombie"}

\* a failed fork, were it recorded as a failed command
ForkFail_StatusSet ==
  /\ pc = "prompt"
  /\ \E line \in Reads(session) :
       /\ IsCommand(line)
       /\ NextPrompt([ParsedJob(line) EXCEPT !.exitStatus = "exit value 1"],
                     <<"Forking error...">>, "forkfail", 0)
       /\ rawInput' = line
  /\ UNCHANGED <<pid, status, child, sigint, cwd, fixed, collected, fs, nextPid, noticed>>

\* pid < 0: fork failed; back in main, next iteration
ForkFail ==
  /\ pc = "prompt"
  /\ \E line \in Reads(session) :
       /\ IsCommand(line)
       /\ NextPrompt(ParsedJob(line), <<"Forking error...">>, "forkfail", 0)
       /\ rawInput' = line
  /\ UNCHANGED <<pid, status, child, sigint, cwd, fixed, collected, fs, nextPid, noticed>>

\* the launch notice, were it left out
LaunchNotice_Silent(job, p) == <<>>

\* the notice the parent prints right after fork
LaunchNotice(job, p) ==
  IF job.isBackground # 0 THEN <<FmtBackgroundPid(p)>> ELSE <<>>

\* fork, were the output file opened and put on descriptor 1 before it
Fork_RedirectsFirst ==
  /\ pc = "prompt"
  /\ nextPid <= MaxPid
  /\ \E line \in Reads(session) :
       /\ IsCommand(line)
       /\ parsedInput' = ParsedJob(line)
       /\ rawInput' = line
  /\ pid' = nextPid
  /\ nextPid' = nextPid + 1
  /\ IF parsedInput'.isOutput = 1 /\ parsedInput'.outFile \in FileNames
       THEN /\ fs' = [fs EXCEPT ![parsedInput'.outFile] = ""]
            /\ stdio' = [stdio EXCEPT !.stdout = parsedInput'.outFile]
       ELSE UNCHANGED <<fs, stdio>>
  /\ child' = [child EXCEPT ![nextPid] =
                 [ForkedChild(parsedInput') EXCEPT !.stdout = stdio'.stdout]]
  /\ sigint' = [sigint EXCEPT ![nextPid] = sigint[Shell]]
  /\ status' \in GarbageStatus
  /\ out' = LaunchNotice(parsedInput', nextPid)
  /\ noticed' = IF LaunchNotice(parsedInput', nextPid) # <<>>
                  THEN noticed \cup {nextPid} ELSE noticed
  /\ pc' = "loop"
  /\ UNCHANGED <<cwd, home, session, token, otp, dec, adv, collected, prev>>

\* pid > 0 in the parent, pid == 0 in the new child; status is not initialised
Fork ==
  /\ pc = "prompt"
  /\ nextPid <= MaxPid
  /\ \E line \in Reads(session) :
       /\ IsCommand(line)
       /\ parsedInput' = ParsedJob(line)
       /\ rawInput' = line
  /\ pid' = nextPid
  /\ nextPid' = nextPid + 1
  /\ child' = [child EXCEPT ![nextPid] = ForkedChild(parsedInput')]
  /\ sigint' = [sigint EXCEPT ![nextPid] = sigint[Shell]]
  /\ status' \in GarbageStatus
  /\ out' = LaunchNotice(parsedInput', nextPid)
  /\ noticed' = IF LaunchNotice(parsedInput', nextPid) # <<>>
                  THEN noticed \cup {nextPid} ELSE noticed
  /\ pc' = "loop"
  /\ UNCHANGED <<cwd, fixed, collected, fs, prev>>

\* the loop condition, were a stopped child taken for a finished one
LoopAgain_StopEnds(s) == ~WIFEXITED(s) /\ ~WIFSIGNALED(s) /\ ~WIFSTOPPED(s)

\* while (!WIFEXITED(status) && !WIFSIGNALED(status))
LoopAgain(s) == ~WIFEXITED(s) /\ ~WIFSIGNALED(s)

\* foreground: waitpid(pid, &status, WUNTRACED) returns when the child has
\* terminated or has stopped; then sprintf "exit value %d"
LoopForeground ==
  /\ pc = "loop"
  /\ parsedInput.isBackground = 0
  /\ \/ /\ child[pid].pc = "zombie"
        /\ status' = child[pid].wstatus
        /\ child' = [child EXCEPT ![pid] = Reaped]
     \/ /\ child[pid].pc = "stopped"
        /\ ~child[pid].reported
        /\ status' = W_STOPCODE(SIGSTOP)
        /\ child' = [child EXCEPT ![pid].reported = TRUE]
  /\ parsedInput' = SetExitStatus(parsedInput, FmtExitValue(WEXITSTATUS(status')))
  /\ pc' = IF LoopAgain(status') THEN "loop" ELSE "reap"
  /\ UNCHANGED <<pid, sigint, cwd, fixed, collected, fs, out, nextPid, noticed, prev, rawInput>>

\* background: waitpid(-1, &status, WNOHANG) collects a terminated child if
\* there is one and leaves status alone otherwise
LoopBackground ==
  /\ pc = "loop"
  /\ parsedInput.isBackground = 1
  /\ \/ \E q \in Zombies :
          /\ status' = child[q].wstatus
          /\ child' = [child EXCEPT ![q] = Reaped]
          /\ collected' = collected \cup {q}
     \/ /\ Zombies = {}
        /\ UNCHANGED <<status, child, collected>>
  /\ pc' = IF LoopAgain(status') THEN "loop" ELSE "reap"
  /\ UNCHANGED <<parsedInput, pid, sigint, cwd, fixed, fs, out, nextPid, noticed,
                 prev, rawInput>>

\* what the shell prints and records when the loop ended on a signal
SignalReport(job, s) ==
  IF WIFSIGNALED(s) THEN SetExitStatus(job, FmtTerminated(WTERMSIG(s))) ELSE job
SignalLine(s) ==
  IF WIFSIGNALED(s) THEN <<FmtTerminated(WTERMSIG(s))>> ELSE <<>>

\* the notice for a child the last waitpid(-1, &status, WNOHANG) collected
DoneLine(q, s) ==
  (IF WIFEXITED(s) THEN <<FmtDoneExit(q, WEXITSTATUS(s))>> ELSE <<>>)
  \o (IF WIFSIGNALED(s) THEN <<FmtDoneSignal(q, WTERMSIG(s))>> ELSE <<>>)

\* what the previous line is remembered as
KindOf(job) == IF job.isBackground # 0 THEN "bg" ELSE "fg"
FgStatus(job, s) == IF job.isBackground # 0 THEN 0 ELSE s

\* after the loop: the signal report, then one non-blocking wait for any
\* child; back in main, next iteration
Reap ==
  /\ pc = "reap"
  /\ \/ \E q \in Zombies :
          /\ child' = [child EXCEPT ![q] = Reaped]
          /\ NextPrompt(SignalReport(parsedInput, status),
                        out \o SignalLine(status) \o DoneLine(q, child[q].wstatus),
                        KindOf(parsedInput), FgStatus(parsedInput, status))
     \/ /\ Zombies = {}
        /\ NextPrompt(SignalReport(parsedInput, status),
                      out \o SignalLine(status), KindOf(parsedInput),
                      FgStatus(parsedInput, status))
        /\ UNCHANGED child
  /\ pid' = 0
  /\ status' = 0
  /\ collected' = {}
  /\ UNCHANGED <<sigint, cwd, fixed, fs, nextPid, noticed, rawInput>>

(***************************************************************************)
(* runCommand, in the child (pid == 0): signal, redirections, execvp.      *)
(***************************************************************************)
\* the disposition the child installs: sigaction(SIGINT, &foreground, NULL),
\* whatever the job's isBackground is
ChildDisposition(c) == "SIG_DFL"

\* the target, were sigaction called before fork
SigactionTarget_Parent(p) == Shell

\* the process whose disposition the child's sigaction call changes
SigactionTarget(p) == p

ChildSigaction(p) ==
  /\ child[p].pc = "sigaction"
  /\ sigint' = [sigint EXCEPT ![SigactionTarget(p)] = ChildDisposition(child[p])]
  /\ child' = [child EXCEPT ![p].pc = "launch"]
  /\ UNCHANGED <<pc, parsedInput, pid, status, cwd, fixed, collected, fs, out,
                 nextPid, noticed, prev, rawInput>>

\* a terminated child: only its wait status is left (and, for the record,
\* which kind of job it was and what it printed)
Zombie(c, s) ==
  [NoChild EXCEPT !.pc = "zombie", !.wstatus = s,
                  !.isBackground = c.isBackground, !.msgs = c.msgs]
\* exit(code) in the child
ChildDies(c, code) == Zombie(c, W_EXITCODE(code))
\* printf in the child
ChildPrints(c, text) == [c EXCEPT !.msgs = Append(c.msgs, text)]

\* open(path, O_RDONLY) succeeds
CanOpenRead(path) == path \in FileNames /\ fs[path] # Absent
\* open(path, O_WRONLY | O_TRUNC | O_CREAT, 0777) succeeds
CanOpenWrite(path) == path \in FileNames

\* what open and dup2 may return for want of resources: success, and
\* failure too in a session with faults
Outcomes == IF session.faults THEN BOOLEAN ELSE {TRUE}

\* the input branch, were exit(1) left out after the message
RedirectInput_NoExit(c, openOk, dupOk) ==
  IF c.isInput = 1
    THEN IF ~openOk
           THEN ChildPrints(c, FmtCannotOpen(c.inFile))
         ELSE IF ~dupOk
           THEN ChildPrints(c, "Error dup2 input file...")
         ELSE [c EXCEPT !.stdin = c.inFile]
  ELSE IF c.isBackground # 0
    THEN LET c1 == IF openOk THEN c ELSE ChildPrints(c, "Error opening input file...")
         IN  IF openOk /\ dupOk
               THEN [c1 EXCEPT !.stdin = DevNull]
               ELSE ChildPrints(c1, "Error copying file descriptor.")
  ELSE c

\* the input branch: the named file, else /dev/null for a background job
RedirectInput(c, openOk, dupOk) ==
  IF c.isInput = 1
    THEN IF ~openOk
           THEN ChildDies(ChildPrints(c, FmtCannotOpen(c.inFile)), 1)
         ELSE IF ~dupOk
           THEN ChildPrints(c, "Error dup2 input file...")
         ELSE [c EXCEPT !.stdin = c.inFile]
  ELSE IF c.isBackground # 0
    THEN LET c1 == IF openOk THEN c ELSE ChildPrints(c, "Error opening input file...")
         IN  IF openOk /\ dupOk
               THEN [c1 EXCEPT !.stdin = DevNull]
               ELSE ChildPrints(c1, "Error copying file descriptor.")
  ELSE c

\* the output branch, were a failed open fatal as it is for the input
RedirectOutput_Fatal(c, openOk, dupOk) ==
  IF c.isOutput = 1
    THEN IF ~openOk
           THEN ChildDies(ChildPrints(c, "Error opening output file..."), 1)
         ELSE IF ~dupOk
           THEN ChildPrints(c, "Error copying file descriptor.")
         ELSE [c EXCEPT !.stdout = c.outFile]
  ELSE c

\* the output branch: open truncates or creates, dup2 onto descriptor 1
RedirectOutput(c, openOk, dupOk) ==
  IF c.isOutput = 1
    THEN LET c1 == IF openOk THEN c ELSE ChildPrints(c, "Error opening output file...")
         IN  IF openOk /\ dupOk
               THEN [c1 EXCEPT !.stdout = c.outFile]
               ELSE ChildPrints(c1, "Error copying file descriptor.")
  ELSE c

\* the files after the output branch, were O_TRUNC left out of the flags
FilesAfterOutput_NoTrunc(c, openOk, files) ==
  IF c.isOutput = 1 /\ openOk /\ files[c.outFile] = Absent
    THEN [files EXCEPT ![c.outFile] = ""]
    ELSE files

\* the files after the output branch
FilesAfterOutput(c, openOk, files) ==
  IF c.isOutput = 1 /\ openOk THEN [files EXCEPT ![c.outFile] = ""] ELSE files

\* the child once execvp replaced its image: the copy of the job is gone,
\* descriptors and signal disposition stay
Image(c) ==
  [NoChild EXCEPT !.pc = "running", !.isBackground = c.isBackground,
                  !.stdin = c.stdin, !.stdout = c.stdout, !.msgs = c.msgs]

\* execvp failing, were the child to leave with the code 0
Exec_ExitZero(c) ==
  IF c.cmd \in Programs
    THEN Image(c)
    ELSE ChildDies(ChildPrints(c, FmtNoSuchCommand(c.cmd)), 0)

\* execvp(args[0], args): the program runs, or the child reports and exits 1
Exec(c) ==
  IF c.cmd \in Programs
    THEN Image(c)
    ELSE ChildDies(ChildPrints(c, FmtNoSuchCommand(c.cmd)), 1)

\* open succeeds for the input the child is to read
InputOpens(c, ok) ==
  IF c.isInput = 1 THEN CanOpenRead(c.inFile) ELSE ok
\* open succeeds for the output the child is to write
OutputOpens(c, ok) == CanOpenWrite(c.outFile) /\ ok

\* the child after sigaction: input redirection, output redirection, execvp
ChildLaunch(p) ==
  /\ child[p].pc = "launch"
  /\ \E inOk, inDup, outOk, outDup \in Outcomes :
       LET openIn  == InputOpens(child[p], inOk)
           openOut == OutputOpens(child[p], outOk)
           c1      == RedirectInput(child[p], openIn, inDup)
       IN  IF c1.pc = "zombie"
             THEN /\ child' = [child EXCEPT ![p] = c1]
                  /\ UNCHANGED fs
             ELSE /\ child' = [child EXCEPT ![p] =
                                 Exec(RedirectOutput(c1, openOut, outDup))]
                  /\ fs' = FilesAfterOutput(c1, openOut, fs)
  /\ UNCHANGED <<pc, parsedInput, pid, status, sigint, cwd, fixed, collected, out, nextPid,
                 noticed, prev, rawInput>>

(***************************************************************************)
(* The programs the children run, and the signals sent to them.            *)
(***************************************************************************)
\* children a signal can act on now
Live(p) == child[p].pc \in {"sigaction", "launch", "running"}

\* what the program has written to its standard output when it leaves with
\* the code: a long text when it succeeds, a short one when it fails
ProgramOutput(code) == IF code = 0 THEN "output" ELSE "e"

\* write(2) of text at offset 0 of a file: the bytes beyond the text stay
Overlay(old, text) == text \o SubSeq(old, Len(text) + 1, Len(old))

\* the files once the program has written to descriptor 1, which the child
\* opened at offset 0
FilesAfterExit(c, code, files) ==
  IF c.stdout \in FileNames
    THEN [files EXCEPT ![c.stdout] = Overlay(@, ProgramOutput(code))]
    ELSE files

\* the program writes its output and calls exit(code)
ChildExit(p) ==
  /\ child[p].pc = "running"
  /\ \E code \in ExitCodes :
       /\ child' = [child EXCEPT ![p] = ChildDies(child[p], code)]
       /\ fs' = FilesAfterExit(child[p], code, fs)
  /\ UNCHANGED <<pc, parsedInput, pid, status, sigint, cwd, fixed, collected,
                 out, nextPid, noticed, prev, rawInput>>

\* a process that takes the default action of signal sig
Terminated(c, sig) == Zombie(c, W_TERMSIG(sig))

\* ctrl-C: SIGINT goes to the shell and to every child (no process leaves the
\* shell's process group); it terminates those that do not ignore it
Interrupt ==
  /\ pc \notin {"done", "killed"}
  /\ \A p \in Children : child[p].pc # "stopped"
  /\ child' = [p \in Children |->
                 IF Live(p) /\ sigint[p] = "SIG_DFL"
                   THEN Terminated(child[p], SIGINT) ELSE child[p]]
  /\ pc' = IF sigint[Shell] = "SIG_DFL" THEN "killed" ELSE pc
  /\ UNCHANGED <<parsedInput, pid, status, sigint, cwd, fixed, collected, fs, out,
                 nextPid, noticed, prev, rawInput>>

\* kill <pid> from another terminal: SIGTERM
Kill(p) ==
  /\ Live(p)
  /\ child' = [child EXCEPT ![p] = Terminated(child[p], SIGTERM)]
  /\ UNCHANGED <<pc, parsedInput, pid, status, sigint, cwd, fixed, collected, fs,
                 out, nextPid, noticed, prev, rawInput>>

\* kill -STOP <pid>
Stop(p) ==
  /\ child[p].pc = "running"
  /\ child' = [child EXCEPT ![p].pc = "stopped", ![p].reported = FALSE]
  /\ UNCHANGED <<pc, parsedInput, pid, status, sigint, cwd, fixed, collected, fs,
                 out, nextPid, noticed, prev, rawInput>>

\* kill -CONT <pid>
Cont(p) ==
  /\ child[p].pc = "stopped"
  /\ child' = [child EXCEPT ![p].pc = "running", ![p].reported = FALSE]
  /\ UNCHANGED <<pc, parsedInput, pid, status, sigint, cwd, fixed, collected, fs,
                 out, nextPid, noticed, prev, rawInput>>

(***************************************************************************)
(* The specification.                                                      *)
(***************************************************************************)
Next ==
  \/ MainSkip
  \/ MainEOF
  \/ MainNoArgs
  \/ MainExit
  \/ MainBuiltIn
  \/ ForkFail
  \/ Fork
  \/ LoopForeground
  \/ LoopBackground
  \/ Reap
  \/ \E p \in Children : ChildSigaction(p)
  \/ \E p \in Children : ChildLaunch(p)
  \/ \E p \in Children : ChildExit(p)
  \/ Interrupt
  \/ \E p \in Children : Kill(p)
  \/ \E p \in Children : Stop(p)
  \/ \E p \in Children : Cont(p)

Spec == Init /\ [][Next]_vars

\* the shell in a session in which open and dup2 may fail
InitFaults ==
  /\ pc = "prompt"
  /\ parsedInput = InitJob
  /\ pid = 0
  /\ status = 0
  /\ child = [p \in Children |-> NoChild]
  /\ sigint = [p \in Procs |-> "SIG_IGN"]
  /\ cwd = "start"
  /\ fs = [f \in FileNames |-> IF f \in InitFiles THEN "data" ELSE Absent]
  /\ out = <<Prompt>>
  /\ nextPid = 1
  /\ noticed = {}
  /\ prev = Prev("start", 0, NULL)
  /\ rawInput = NoLine
  /\ token = 0
  /\ collected = {}
  /\ stdio = [stdin |-> Tty, stdout |-> Tty]
  /\ otp = OtpIdle
  /\ dec = DecIdle
  /\ adv = AdvIdle
  /\ session \in {Session(FaultLines, TRUE), Session(FaultJobLines, TRUE)}
  /\ home = "home"

\* the steps of such a session: its lines are a builtin and two commands
NextFaults ==
  \/ MainBuiltIn
  \/ ForkFail
  \/ Fork
  \/ LoopForeground
  \/ LoopBackground
  \/ Reap
  \/ \E p \in Children : ChildSigaction(p)
  \/ \E p \in Children : ChildLaunch(p)
  \/ \E p \in Children : ChildExit(p)
  \/ Interrupt
  \/ \E p \in Children : Kill(p)
  \/ \E p \in Children : Stop(p)
  \/ \E p \in Children : Cont(p)

SpecFaults == InitFaults /\ [][NextFaults]_vars

TypeOK ==
  /\ pc \in {"prompt", "loop", "reap", "done", "killed", "parse", "parsed"}
  /\ nextPid \in 1..(MaxPid + 1)

(***************************************************************************)
(* parseCommandLine on its own: one call on a line, from the job as the    *)
(* top of the loop of main leaves it.                                      *)
(***************************************************************************)
\* the tokens of the lines
TokenAlphabet == {"<", ">", "&", "ls", "-l", "out.txt"}
\* every line of at most MaxTokens tokens
ShortLines ==
  UNION {[1..n -> TokenAlphabet] : n \in 0..MaxTokens}
\* lines of arguments only, as many as args has slots, one less, one more
LongLines ==
  {[i \in 1..n |-> "ls"] :
     n \in {COMMAND_LINE_ARG - 1, COMMAND_LINE_ARG, COMMAND_LINE_ARG + 1}}
ParseLines ==
  {Line(IF toks = <<>> THEN " " ELSE toks[1], toks) :
     toks \in ShortLines \cup LongLines}

\* a write past args[COMMAND_LINE_ARG - 1] lands on the members of struct
\* job behind args, isInput and inFile for the lines here: what they hold
\* afterwards is not defined
Smashed(job) ==
  {[job EXCEPT !.isInput = a, !.inFile = f] :
     a \in {0, 1}, f \in {job.inFile, Garbage}}
\* the job after a write to args[i]
AfterWrite(job, i) == IF i < COMMAND_LINE_ARG THEN {job} ELSE Smashed(job)

InitParse ==
  /\ pc = "parse"
  /\ parsedInput = InitJob
  /\ pid = 0
  /\ status = 0
  /\ child = [p \in Children |-> NoChild]
  /\ sigint = [p \in Procs |-> "SIG_IGN"]
  /\ cwd = "start"
  /\ fs = [f \in FileNames |-> IF f \in InitFiles THEN "data" ELSE Absent]
  /\ out = <<Prompt>>
  /\ nextPid = 1
  /\ noticed = {}
  /\ prev = Prev("start", 0, NULL)
  /\ rawInput \in ParseLines
  /\ token = 1
  /\ collected = {}
  /\ stdio = [stdin |-> Tty, stdout |-> Tty]
  /\ otp = OtpIdle
  /\ dec = DecIdle
  /\ adv = AdvIdle
  /\ session = Session({}, FALSE)
  /\ home = "home"

\* the last token a round of the while loop takes: a redirection sign takes
\* the next token with it
RoundEnd(toks, i) ==
  IF toks[i] \in {"<", ">"} /\ i < Len(toks) THEN i + 1 ELSE i

\* one round of the while loop of parseCommandLine, on the token at hand
ParseRound ==
  /\ pc = "parse"
  /\ token <= Len(rawInput.toks)
  /\ LET last == RoundEnd(rawInput.toks, token)
         job  == ParseFrom(SubSeq(rawInput.toks, 1, last), token, parsedInput)
     IN  /\ parsedInput' \in
              IF job.argCount > parsedInput.argCount
                THEN AfterWrite(job, parsedInput.argCount)
                ELSE {job}
         /\ token' = last + 1
  /\ UNCHANGED <<pc, pid, status, child, sigint, cwd, home, session, fs, out,
                 nextPid, noticed, prev, rawInput, collected, stdio, otp,
                 dec, adv>>

\* token == NULL: the loop ends, args[argCount] = NULL caps the list
ParseCap ==
  /\ pc = "parse"
  /\ token > Len(rawInput.toks)
  /\ parsedInput' \in AfterWrite(parsedInput, parsedInput.argCount)
  /\ pc' = "parsed"
  /\ UNCHANGED <<pid, status, child, sigint, cwd, fixed, collected, fs, out, nextPid, noticed,
                 prev, rawInput>>

NextParse ==
  \/ ParseRound
  \/ ParseCap

SpecParse == InitParse /\ [][NextParse]_vars

(***************************************************************************)
(* otp_dec and the child otp_dec_d forks for it, once the two have         *)
(* recognised each other: the client sends the ciphertext and the key in   *)
(* chunks, the daemon's child sends each chunk back decoded.  The socket   *)
(* is a byte stream: what a write sends travels as one segment, segments   *)
(* arrive in order, and a read takes what has arrived, up to the size it   *)
(* asks for, whatever writes the bytes came from.  The bytes the client    *)
(* sends are numbered from 0 in the order of sending.                      *)
(***************************************************************************)
\* the size of a chunk: read(ciphertext, ciphertextBuffer, 255)
ChunkSize == 255
\* the longest of the short ciphertext files
MaxShort == 3

\* the lengths of the ciphertext file: short ones, and those around one and
\* two full chunks
FileLengths ==
  (1..MaxShort) \cup {ChunkSize, ChunkSize + 1, 2 * ChunkSize}

Min(a, b) == IF a < b THEN a ELSE b

\* the variables of the shell
shellVars ==
  <<pc, parsedInput, pid, status, child, sigint, cwd, home, fs, out, nextPid,
    noticed, prev, rawInput, token, session, collected, stdio>>

InitOtp ==
  /\ pc = "done"
  /\ parsedInput = InitJob
  /\ pid = 0
  /\ status = 0
  /\ child = [p \in Children |-> NoChild]
  /\ sigint = [p \in Procs |-> "SIG_IGN"]
  /\ cwd = "start"
  /\ fs = [f \in FileNames |-> IF f \in InitFiles THEN "data" ELSE Absent]
  /\ out = <<>>
  /\ nextPid = 1
  /\ noticed = {}
  /\ prev = Prev("start", 0, NULL)
  /\ rawInput = NoLine
  /\ token = 0
  /\ collected = {}
  /\ stdio = [stdin |-> Tty, stdout |-> Tty]
  /\ session = Session({}, FALSE)
  /\ home = "home"
  /\ dec = DecIdle
  /\ adv = AdvIdle
  /\ \E len \in FileLengths :
       otp = [OtpIdle EXCEPT !.len = len, !.cpc = "read", !.closed = FALSE,
                             !.dpc = "readCt"]

\* otp_dec: numBytes = read(ciphertext, ciphertextBuffer, 255); at the end
\* of the file break and close(sockfd); else read as many bytes of the key
ClientRead ==
  /\ otp.cpc = "read"
  /\ LET numBytes == Min(ChunkSize, otp.len - otp.off)
     IN  otp' = IF numBytes = 0
                  THEN [otp EXCEPT !.cpc = "done", !.closed = TRUE, !.n = 0]
                  ELSE [otp EXCEPT !.cpc = "writeCt", !.n = numBytes,
                                   !.off = @ + numBytes]
  /\ UNCHANGED <<shellVars, dec, adv>>

\* otp_dec: write(sockfd, ciphertextBuffer, numBytes)
ClientWriteCt ==
  /\ otp.cpc = "writeCt"
  /\ otp' = [otp EXCEPT !.flight = Append(@, otp.n), !.cpc = "writeKey"]
  /\ UNCHANGED <<shellVars, dec, adv>>

\* otp_dec: write(sockfd, keyBuffer, numBytes)
ClientWriteKey ==
  /\ otp.cpc = "writeKey"
  /\ otp' = [otp EXCEPT !.flight = Append(@, otp.n), !.cpc = "recv"]
  /\ UNCHANGED <<shellVars, dec, adv>>

\* otp_dec: read(sockfd, plaintextBuffer, numBytes) returns once bytes have
\* arrived; printf of the buffer, next round
ClientRecv ==
  /\ otp.cpc = "recv"
  /\ otp.davail > 0
  /\ LET k == Min(otp.n, otp.davail)
     IN  otp' = [otp EXCEPT !.davail = @ - k, !.got = @ + k, !.cpc = "read"]
  /\ UNCHANGED <<shellVars, dec, adv>>

\* a segment arrives at the daemon's end of the socket
SegmentArrives ==
  /\ otp.flight # <<>>
  /\ otp' = [otp EXCEPT !.flight = Tail(@), !.avail = @ + Head(otp.flight)]
  /\ UNCHANGED <<shellVars, dec, adv>>

\* a segment arrives at the client's end of the socket
ReplyArrives ==
  /\ otp.dflight # <<>>
  /\ otp' = [otp EXCEPT !.dflight = Tail(@), !.davail = @ + Head(otp.dflight)]
  /\ UNCHANGED <<shellVars, dec, adv>>

\* the client's end is closed and nothing is left to read: read returns 0
EndOfStream == otp.closed /\ otp.flight = <<>> /\ otp.avail = 0

\* otp_dec_d: numBytes = read(newsockfd, ciphertextBuffer, 255); 0: break
\* and exit(0)
DaemonReadCt ==
  /\ otp.dpc = "readCt"
  /\ otp.avail > 0 \/ EndOfStream
  /\ LET numBytes == Min(ChunkSize, otp.avail)
     IN  otp' = IF numBytes = 0
                  THEN [otp EXCEPT !.dpc = "done"]
                  ELSE [otp EXCEPT !.dpc = "readKey", !.m = numBytes,
                                   !.ctFrom = otp.taken,
                                   !.taken = @ + numBytes,
                                   !.avail = @ - numBytes]
  /\ UNCHANGED <<shellVars, dec, adv>>

\* otp_dec_d: read(newsockfd, keyBuffer, numBytes); only -1 is tested, so
\* fewer bytes than asked for, or none at the end of the stream, go on
DaemonReadKey ==
  /\ otp.dpc = "readKey"
  /\ otp.avail > 0 \/ EndOfStream
  /\ LET k == Min(otp.m, otp.avail)
     IN  otp' = [otp EXCEPT !.dpc = "write", !.keyFrom = otp.taken,
                            !.keyGot = k, !.taken = @ + k, !.avail = @ - k]
  /\ UNCHANGED <<shellVars, dec, adv>>

\* otp_dec_d: encrypt(ciphertextBuffer, keyBuffer, numBytes), then
\* write(newsockfd, plaintextBuffer, numBytes)
DaemonWrite ==
  /\ otp.dpc = "write"
  /\ otp' = [otp EXCEPT !.dflight = Append(@, otp.m), !.dpc = "readCt"]
  /\ UNCHANGED <<shellVars, dec, adv>>

NextOtp ==
  \/ ClientRead
  \/ ClientWriteCt
  \/ ClientWriteKey
  \/ ClientRecv
  \/ SegmentArrives
  \/ ReplyArrives
  \/ DaemonReadCt
  \/ DaemonReadKey
  \/ DaemonWrite

SpecOtp == InitOtp /\ [][NextOtp]_vars

(***************************************************************************)
(* The bytes of a decoding.  otp_dec reads its ciphertext file and its key *)
(* file chunk by chunk; here every chunk reaches the child of otp_dec_d as *)
(* it was written, ciphertext first and key second, the child decodes it   *)
(* with encrypt and sends it back, and otp_dec prints it.  Bytes are their *)
(* ASCII codes.                                                            *)
(***************************************************************************)
Newline == 10
Space == 32
LetterA == 65
\* the values a symbol can take: (ciphertext[i] - key[i] + 27) % 27
AlphabetSize == 27

\* the % of C, whose result has the sign of the dividend
CRem(a, b) == IF a >= 0 THEN a % b ELSE 0 - ((0 - a) % b)

\* a byte as encrypt converts it: ' ' is 26, any other byte b is b - 'A'
ToValue(b) == IF b = Space THEN AlphabetSize - 1 ELSE b - LetterA
\* and back: 26 is ' ', any other value v is v + 'A'
ToLetter(v) == IF v = AlphabetSize - 1 THEN Space ELSE v + LetterA

\* char *encrypt(char *ciphertext, char *key, int length): every byte
\* decoded in place, then ciphertext[length - 1] = '\n'
encrypt(ciphertext, key, length) ==
  [i \in 1..length |->
     IF i = length
       THEN Newline
       ELSE ToLetter(CRem(ToValue(ciphertext[i]) - ToValue(key[i])
                            + AlphabetSize, AlphabetSize))]

\* the symbols the short files are made of: A, B, Z and the space
FewSymbols == {LetterA, LetterA + 1, LetterA + 25, Space}

\* a file of symbols that ends with a newline
TextFile(symbols) == Append(symbols, Newline)

\* the pairs of a ciphertext file and a key file as long: every short one
\* over the few symbols, and long ones of one symbol around one and two
\* chunks
DecodeInputs ==
  {[ciphertext |-> TextFile(c), key |-> TextFile(k)] :
     <<c, k>> \in UNION {[1..n -> FewSymbols \ {LetterA}]
                           \X [1..n -> FewSymbols \ {LetterA + 1}] :
                         n \in 0..(MaxShort - 1)}}
  \cup
  {[ciphertext |-> TextFile([i \in 1..n |-> LetterA + 25]),
    key |-> TextFile([i \in 1..n |-> k])] :
     n \in {ChunkSize - 1, ChunkSize, 2 * ChunkSize}, k \in FewSymbols}

InitDecode ==
  /\ pc = "done"
  /\ parsedInput = InitJob
  /\ pid = 0
  /\ status = 0
  /\ child = [p \in Children |-> NoChild]
  /\ sigint = [p \in Procs |-> "SIG_IGN"]
  /\ cwd = "start"
  /\ fs = [f \in FileNames |-> IF f \in InitFiles THEN "data" ELSE Absent]
  /\ out = <<>>
  /\ nextPid = 1
  /\ noticed = {}
  /\ prev = Prev("start", 0, NULL)
  /\ rawInput = NoLine
  /\ token = 0
  /\ collected = {}
  /\ stdio = [stdin |-> Tty, stdout |-> Tty]
  /\ session = Session({}, FALSE)
  /\ home = "home"
  /\ otp = OtpIdle
  /\ adv = AdvIdle
  /\ \E files \in DecodeInputs :
       dec = [DecIdle EXCEPT !.pc = "read", !.ciphertext = files.ciphertext,
                             !.key = files.key]

\* otp_dec: a chunk of the ciphertext and as many bytes of the key are read
\* and written to the socket; otp_dec_d reads them into its two buffers
SendChunk ==
  /\ dec.pc = "read"
  /\ dec.off < Len(dec.ciphertext)
  /\ LET numBytes == Min(ChunkSize, Len(dec.ciphertext) - dec.off)
     IN  dec' = [dec EXCEPT
                   !.ciphertextBuffer = SubSeq(dec.ciphertext, dec.off + 1,
                                               dec.off + numBytes),
                   !.keyBuffer = SubSeq(dec.key, dec.off + 1,
                                        dec.off + numBytes),
                   !.off = @ + numBytes,
                   !.pc = "decode"]
  /\ UNCHANGED <<shellVars, otp, adv>>

\* otp_dec_d: plaintextBuffer = encrypt(ciphertextBuffer, keyBuffer,
\* numBytes), then written to the socket
DecodeChunk ==
  /\ dec.pc = "decode"
  /\ dec' = [dec EXCEPT
               !.plaintextBuffer = encrypt(dec.ciphertextBuffer, dec.keyBuffer,
                                           Len(dec.ciphertextBuffer)),
               !.pc = "print"]
  /\ UNCHANGED <<shellVars, otp, adv>>

\* otp_dec: the reply is read and printed, the buffers are cleared
PrintChunk ==
  /\ dec.pc = "print"
  /\ dec' = [dec EXCEPT !.printed = @ \o dec.plaintextBuffer,
                        !.plaintextBuffer = <<>>, !.ciphertextBuffer = <<>>,
                        !.keyBuffer = <<>>, !.pc = "read"]
  /\ UNCHANGED <<shellVars, otp, adv>>

\* otp_dec: read returns 0 at the end of the ciphertext; close, return 0
DecodeEnd ==
  /\ dec.pc = "read"
  /\ dec.off = Len(dec.ciphertext)
  /\ dec' = [dec EXCEPT !.pc = "done"]
  /\ UNCHANGED <<shellVars, otp, adv>>

NextDecode ==
  \/ SendChunk
  \/ DecodeChunk
  \/ PrintChunk
  \/ DecodeEnd

SpecDecode == InitDecode /\ [][NextDecode]_vars

(***************************************************************************)
(* The adventure game: createRooms, from the loop that names the rooms to  *)
(* the choice of the start and end rooms.  rand() is a linear congruential *)
(* generator of 16 bits whose high byte is the number drawn; the seed that *)
(* srand installs is any of the seeds up to MaxSeed.  The arrays           *)
(* adjacentRooms come from malloc and hold anything before they are        *)
(* written.                                                                *)
(***************************************************************************)
\* the largest seed
MaxSeed == 120

\* struct room *roomArray = malloc(7 * sizeof(struct room))
NumRooms == 7
\* char *roomNames[10]
NumNames == 10
\* int adjacentRooms[6]
MaxAdjacent == 6
\* for (i = 0; i < 3; i++): the rounds of the connection loop
Rounds == 3

roomNames ==
  [n \in 0..(NumNames - 1) |->
     <<"Ankh-Morpork", "Pseudopolis", "Klatch", "Uberwald", "Ramtops",
       "The Rim", "Ephebe", "Great Nef", "Krull", "Borogravia">>[n + 1]]

\* the generator's next state, and the number rand() returns in that state
Rand(x) == (25173 * x + 13849) % 65536
Drawn(x) == x \div 256

\* what every slot of the adjacentRooms arrays holds before it is written:
\* no room's number, or the number of one room
GarbageFills == {0 - 1, 0, 3}

\* roomArray after the loop that clears the counters
FreshRooms(fill) ==
  [r \in 0..(NumRooms - 1) |->
     [id |-> 0 - 1, name |-> NULL, roomType |-> NULL,
      adjacentRooms |-> [k \in 0..(MaxAdjacent - 1) |-> fill],
      counter |-> 0]]

InitAdventure ==
  /\ pc = "done"
  /\ parsedInput = InitJob
  /\ pid = 0
  /\ status = 0
  /\ child = [p \in Children |-> NoChild]
  /\ sigint = [p \in Procs |-> "SIG_IGN"]
  /\ cwd = "start"
  /\ fs = [f \in FileNames |-> IF f \in InitFiles THEN "data" ELSE Absent]
  /\ out = <<>>
  /\ nextPid = 1
  /\ noticed = {}
  /\ prev = Prev("start", 0, NULL)
  /\ rawInput = NoLine
  /\ token = 0
  /\ collected = {}
  /\ stdio = [stdin |-> Tty, stdout |-> Tty]
  /\ session = Session({}, FALSE)
  /\ home = "home"
  /\ otp = OtpIdle
  /\ dec = DecIdle
  /\ \E seed \in 0..MaxSeed, fill \in GarbageFills :
       adv = [AdvIdle EXCEPT
                !.pc = "names", !.next = seed,
                !.roomArray = FreshRooms(fill),
                !.roomNameAvailable = [n \in 0..(NumNames - 1) |-> 1]]

\* one rand() % 10 of the naming loop: a taken name is drawn again, a free
\* one goes to room i, which gets its id and the type MID_ROOM
NameDraw ==
  /\ adv.pc = "names"
  /\ LET x == Rand(adv.next)
         roomNameNum == Drawn(x) % NumNames
     IN  adv' =
           IF adv.roomNameAvailable[roomNameNum] = 0
             THEN [adv EXCEPT !.next = x]
             ELSE [adv EXCEPT
                     !.next = x,
                     !.roomArray[adv.i] =
                        [@ EXCEPT !.id = adv.i, !.name = roomNames[roomNameNum],
                                  !.roomType = "MID_ROOM"],
                     !.roomNameAvailable[roomNameNum] = 0,
                     !.i = IF adv.i + 1 < NumRooms THEN adv.i + 1 ELSE 0,
                     !.pc = IF adv.i + 1 < NumRooms THEN "names" ELSE "connect"]
  /\ UNCHANGED <<shellVars, otp, dec>>

\* the condition of the do-while, were only the room itself refused
Rejected_SelfOnly(room, connection) == connection = room.id

\* while (connection == roomArray[j].id || connection ==
\* roomArray[j].adjacentRooms[0] || connection == roomArray[j].adjacentRooms[1])
Rejected(room, connection) ==
  \/ connection = room.id
  \/ connection = room.adjacentRooms[0]
  \/ connection = room.adjacentRooms[1]

\* the flag unique after the for loop over the room's connections
Unique(room, connection) ==
  \A k \in 0..(room.counter - 1) : room.adjacentRooms[k] # connection

\* the connection is added to room j, then room j to the connection
Linked(rooms, j, connection) ==
  LET one == [rooms EXCEPT ![j].adjacentRooms[rooms[j].counter] = connection,
                           ![j].counter = @ + 1]
  IN  [one EXCEPT ![connection].adjacentRooms[one[connection].counter] = j,
                  ![connection].counter = @ + 1]

\* one round of the do-while for room j in round i of the connection loop:
\* a refused number is drawn again; an accepted one is linked if the room
\* does not have it yet; then the next room, the next round
ConnectDraw ==
  /\ adv.pc = "connect"
  /\ LET x == Rand(adv.next)
         connection == Drawn(x) % NumRooms
         room == adv.roomArray[adv.j]
         lastRoom == adv.j + 1 = NumRooms
         lastRound == adv.i + 1 = Rounds
     IN  adv' =
           IF Rejected(room, connection)
             THEN [adv EXCEPT !.next = x]
             ELSE [adv EXCEPT
                     !.next = x,
                     !.roomArray = IF Unique(room, connection)
                                     THEN Linked(@, adv.j, connection)
                                     ELSE @,
                     !.j = IF lastRoom THEN 0 ELSE adv.j + 1,
                     !.i = IF lastRoom
                             THEN (IF lastRound THEN 0 ELSE adv.i + 1)
                             ELSE adv.i,
                     !.pc = IF lastRoom /\ lastRound THEN "start" ELSE "connect"]
  /\ UNCHANGED <<shellVars, otp, dec>>

\* int startRoom = rand() % 7
StartDraw ==
  /\ adv.pc = "start"
  /\ LET x == Rand(adv.next)
     IN  adv' = [adv EXCEPT !.next = x, !.startRoom = Drawn(x) % NumRooms,
                            !.pc = "end"]
  /\ UNCHANGED <<shellVars, otp, dec>>

\* endRoom = rand() % 7, again while it is the start room; then the two
\* room types are set
EndDraw ==
  /\ adv.pc = "end"
  /\ LET x == Rand(adv.next)
         endRoom == Drawn(x) % NumRooms
     IN  adv' =
           IF endRoom = adv.startRoom
             THEN [adv EXCEPT !.next = x]
             ELSE [adv EXCEPT
                     !.next = x, !.endRoom = endRoom,
                     !.roomArray =
                        [[@ EXCEPT ![adv.startRoom].roomType = "START_ROOM"]
                            EXCEPT ![endRoom].roomType = "END_ROOM"],
                     !.pc = "written"]
  /\ UNCHANGED <<shellVars, otp, dec>>

NextAdventure ==
  \/ NameDraw
  \/ ConnectDraw
  \/ StartDraw
  \/ EndDraw

SpecAdventure == InitAdventure /\ [][NextAdventure]_vars

(***************************************************************************)
(* Properties.                                                             *)
(***************************************************************************)
\* the last line the shell printed is the prompt
PromptShown == Len(out) > 0 /\ out[Len(out)] = Prompt

\* a step of main that handled one line and printed the next prompt
LineStep(kind) ==
  /\ pc = "prompt"
  /\ pc' = "prompt"
  /\ prev'.kind = kind
  /\ <<out, prev, parsedInput, cwd>>' # <<out, prev, parsedInput, cwd>>

\* the exit codes and signals the texts below are spelled out for
AnyExitCode == 0..255
AnySignal == 1..126
AnyPath == {"dir", "nodir", "home", "start"}

\* C1: the next prompt is never shown while a foreground child is still
\* alive: whenever the shell is at the prompt, every child launched in the
\* foreground has terminated and has been collected by the shell's wait; a
\* stop of the child does not end the wait.
C1_PromptAfterForeground ==
  (pc = "prompt" \/ PromptShown) =>
    \A p \in Children :
      child[p].isBackground = 0 => child[p].pc \in {"none", "reaped"}

\* a prompt after a foreground command, while a background child still runs
C1_Witness ==
  /\ pc = "prompt"
  /\ PromptShown
  /\ prev.kind = "fg"
  /\ \E p \in Children : child[p].pc = "running" /\ child[p].isBackground = 1

\* C2: when the foreground child of the previous line exited normally with
\* code N, a status line that follows prints exactly "exit value N",
\* whatever background children exist or were collected meanwhile.
C2_StatusAfterForegroundExit ==
  [][(LineStep("status") /\ prev.kind = "fg")
       => \A n \in AnyExitCode :
            prev.wstatus = W_EXITCODE(n)
              => out' = <<"exit value " \o ToString(n), Prompt>>]_vars

\* status has printed the code 255 of a foreground child, with a background
\* child around
C2_Witness ==
  /\ pc = "prompt"
  /\ prev.kind = "status"
  /\ out = <<"exit value 255", Prompt>>
  /\ \E p \in Children : child[p].isBackground = 1 /\ child[p].pc # "reaped"

\* C3: launching a background command never makes the shell wait: while the
\* shell is in the loop of runCommand for a background job and no child has
\* terminated, the loop condition lets it go on to the prompt.
C3_BackgroundLaunchNeverWaits ==
  (pc = "loop" /\ parsedInput.isBackground # 0 /\ Zombies = {})
    => ~LoopAgain(status)

\* the notices about child p
DoneNotices(p) ==
  {"background pid " \o ToString(p) \o " is done: exit value "
     \o ToString(n) \o "." : n \in ExitCodes \cup {1}}
  \cup
  {"background pid " \o ToString(p) \o " is done: terminated by signal "
     \o ToString(n) \o "." : n \in {SIGINT, SIGTERM}}
LaunchNoticeOf(p) == "background pid is " \o ToString(p)
AllDoneNotices == [p \in Children |-> DoneNotices(p)]

\* C4 (as stated): the completion notice of a background command never
\* appears before its launch notice, nor in the loop iteration that
\* launched it.
C4_DoneNoticeInLaterIteration ==
  \A p \in Children : \A i \in 1..Len(out) :
    out[i] \in AllDoneNotices[p]
      => /\ p \in noticed
         /\ \A j \in 1..Len(out) : out[j] # LaunchNoticeOf(p)

\* C4 (amended): the completion notice of a background command never
\* appears before its launch notice; when both are printed in the same
\* iteration, the launch notice comes first.
C4_DoneNoticeAfterLaunchNotice ==
  \A p \in Children : \A i \in 1..Len(out) :
    out[i] \in AllDoneNotices[p]
      => /\ p \in noticed
         /\ \A j \in 1..Len(out) : out[j] = LaunchNoticeOf(p) => j < i

\* launch notice and completion notice of one child in the same iteration
C4_Witness ==
  \E p \in Children :
    /\ Len(out) = 3
    /\ out[1] = LaunchNoticeOf(p)
    /\ out[2] \in AllDoneNotices[p]
    /\ out[3] = Prompt

\* C5: a child that has set its signal up has the default SIGINT
\* disposition if and only if its job is a foreground job; a background
\* child ignores SIGINT.
C5_DefaultIffForeground ==
  \A p \in Children :
    child[p].pc \in {"launch", "running", "stopped"}
      => (sigint[p] = "SIG_DFL" <=> child[p].isBackground = 0)

\* C6: the shell's own SIGINT disposition is Ignore in every state, and no
\* interrupt terminates the shell.
C6_ShellIgnoresInterrupt ==
  /\ sigint[Shell] = "SIG_IGN"
  /\ pc # "killed"

\* an interrupt has terminated a child while the shell goes on waiting
C6_Witness ==
  /\ pc = "loop"
  /\ \E p \in Children :
       /\ child[p].pc = "zombie"
       /\ child[p].wstatus = W_TERMSIG(SIGINT)
       /\ sigint[p] = "SIG_DFL"

\* C7: the status text is written only by the wait on a foreground child
\* (with its signal report) and by the cd and status builtins.
C7_StatusOnlyFromForeground ==
  [][parsedInput'.exitStatus # parsedInput.exitStatus
       => \/ pc \in {"loop", "reap"} /\ parsedInput.isBackground = 0
          \/ LineStep("cd")
          \/ LineStep("status")]_vars

\* the texts of the status as documented, and as the shell writes them
DocumentedTexts ==
  {"none"}
  \cup {"exit value " \o ToString(n) : n \in AnyExitCode}
  \cup {"terminated by signal " \o ToString(n) : n \in AnySignal}
WrittenTexts ==
  {"none"}
  \cup {"exit value " \o ToString(n) : n \in AnyExitCode}
  \cup {"terminated by signal " \o ToString(n) \o "." : n \in AnySignal}

C9_StatusPrintsThenResets ==
  [][LineStep("status")
       => /\ out' = <<parsedInput.exitStatus, Prompt>>
          /\ parsedInput'.exitStatus = "exit value 0"
          /\ prev.kind = "start" => out'[1] = "none"
          /\ prev.kind = "status" => out'[1] = "exit value 0"]_vars

\* status, as the first line, has printed "none"
C9_Witness ==
  /\ pc = "prompt"
  /\ prev.kind = "status"
  /\ out = <<"none", Prompt>>
  /\ parsedInput.exitStatus = "exit value 0"

\* C10: cd with a path that is no directory leaves the working directory
\* alone, prints "<path>: no such file or directory" and sets the status
\* text to "exit value 1"; with a directory it moves there and sets
\* "exit value 0"; the shell goes on to the next prompt in both cases.
C10_CdWithPath ==
  [][\A path \in AnyPath :
       (pc = "prompt" /\ prev'.kind = "cd" /\ prev'.arg = path
          /\ UNCHANGED <<child, nextPid>>
          /\ <<out, prev, parsedInput, cwd, pc>>' # <<out, prev, parsedInput, cwd, pc>>)
         => /\ pc' = "prompt"
            /\ IF path \in {"dir", "home", "start"}
                 THEN /\ cwd' = path
                      /\ parsedInput'.exitStatus = "exit value 0"
                      /\ out' = <<Prompt>>
                 ELSE /\ cwd' = cwd
                      /\ parsedInput'.exitStatus = "exit value 1"
                      /\ out' = <<path \o ": no such file or directory", Prompt>>]_vars

\* a cd that failed after one that succeeded: still in the directory
C10_Witness ==
  /\ pc = "prompt"
  /\ prev.kind = "cd"
  /\ prev.arg = "nodir"
  /\ cwd = "dir"
  /\ parsedInput.exitStatus = "exit value 1"

(***************************************************************************)
(* The words of a line, read off its tokens.                               *)
(***************************************************************************)
\* token i is the path of a redirection: it follows a "<" or ">" that is
\* not itself the path of one
RECURSIVE IsPathAt(_, _)
IsPathAt(toks, i) ==
  i > 1 /\ toks[i - 1] \in {"<", ">"} /\ ~IsPathAt(toks, i - 1)

\* token i is an argument
IsArgAt(toks, i) == toks[i] \notin {"<", ">", "&"} /\ ~IsPathAt(toks, i)

\* the arguments among the tokens lo..hi, in their order
RECURSIVE ArgTokensIn(_, _, _)
ArgTokensIn(toks, lo, hi) ==
  IF lo > hi THEN <<>>
  ELSE IF lo = hi THEN (IF IsArgAt(toks, lo) THEN <<toks[lo]>> ELSE <<>>)
  ELSE LET mid == (lo + hi) \div 2
       IN  ArgTokensIn(toks, lo, mid) \o ArgTokensIn(toks, mid + 1, hi)
ArgTokens(toks) == ArgTokensIn(toks, 1, Len(toks))
\* how many arguments a line has
ArgTotal(toks) == Cardinality({i \in 1..Len(toks) : IsArgAt(toks, i)})

\* the arguments of a line; a blank line, a comment and the end of input
\* have none
Words(line) ==
  IF line.first \in {"\n", "#", NUL} THEN <<>> ELSE ArgTokens(line.toks)

\* a step of main that read a line: from the prompt, and not a step of a
\* child
LineRead == pc = "prompt" /\ (pc' # "prompt" \/ UNCHANGED child)

\* the paths that name a directory
AnyDirectory == {"start", "home", "dir"}

\* C11 (as stated): after cd without an argument the working directory is
\* the value of HOME and the status text is "exit value 0", whatever the
\* value of HOME is.
C11_CdHomeAlwaysHome ==
  [][(LineRead /\ Words(rawInput') = <<"cd">>)
       => /\ cwd' = home
          /\ parsedInput'.exitStatus = "exit value 0"]_vars

\* C11 (amended): after cd without an argument the status text is
\* "exit value 0" and nothing is printed, whatever the value of HOME is; the
\* working directory is the value of HOME when that names a directory, and
\* is unchanged when HOME is not set or names no directory.
C11_CdHomeWhenDirectory ==
  [][(LineRead /\ Words(rawInput') = <<"cd">>)
       => /\ parsedInput'.exitStatus = "exit value 0"
          /\ out' = <<Prompt>>
          /\ pc' = "prompt"
          /\ cwd' = IF home \in AnyDirectory THEN home ELSE cwd]_vars

\* cd without an argument while HOME names no directory: still in the
\* directory of before, status text "exit value 0"
C11_Witness ==
  /\ pc = "prompt"
  /\ rawInput.toks = <<"cd">>
  /\ prev.kind = "cd"
  /\ home = "nohome"
  /\ cwd = "dir"
  /\ parsedInput.exitStatus = "exit value 0"

\* C12: a line that is empty, starts with "#" or parses to no argument
\* (blanks only, or only "&" and redirections with their paths) forks no
\* child, runs no builtin, opens, creates and truncates no file, leaves the
\* status text and the working directory as they are, prints nothing, and
\* the shell prompts again.
C12_NoOpLines ==
  [][(LineRead /\ rawInput'.first # NUL /\ Words(rawInput') = <<>>)
       => /\ UNCHANGED <<child, nextPid, noticed, pid, status, sigint, fs, cwd>>
          /\ parsedInput'.exitStatus = parsedInput.exitStatus
          /\ out' = <<Prompt>>
          /\ pc' = "prompt"]_vars

\* the line "> outf" after a failed cd in directory dir: outf does not
\* exist, the status text and the directory are those of before
C12_Witness ==
  /\ pc = "prompt"
  /\ rawInput.toks = <<">", "outf">>
  /\ fs["outf"] = Absent
  /\ cwd = "dir"
  /\ parsedInput.exitStatus = "exit value 1"

\* the line read is the end of the input: getline returned -1
AtEndOfInput(line) == line.first \in {NUL, Garbage}
\* the first argument of the line read is "exit"
ExitLine(line) == Words(line) # <<>> /\ Words(line)[1] = "exit"

\* C13: the shell terminates exactly when the first argument of the line is
\* "exit" or the input is at its end; it does so at once, forking, waiting
\* for, collecting and signalling no child; nothing else ends the shell.
C13_TerminatesOnExitOrEndOfInput ==
  [][/\ LineRead =>
          (pc' = "done" <=> (AtEndOfInput(rawInput') \/ ExitLine(rawInput')))
     /\ (pc # "done" /\ pc' = "done") =>
          /\ LineRead
          /\ UNCHANGED <<child, nextPid, noticed, pid, status, sigint, fs>>
     /\ pc' # "killed"]_vars

\* the first argument of the line read is a builtin
BuiltInLine(line) ==
  Words(line) # <<>> /\ Words(line)[1] \in {"cd", "status", "exit"}

\* C14: a line whose first argument is cd, status or exit forks no child,
\* and "<", ">" and "&" on it do nothing: no file is opened, created or
\* truncated, no "background pid" notice is printed, no child is waited for
\* or collected; status prints the status text on the terminal.
C14_BuiltInsInShell ==
  [][(LineRead /\ BuiltInLine(rawInput'))
       => /\ UNCHANGED <<child, nextPid, noticed, pid, status, sigint, fs>>
          /\ pc' = IF Words(rawInput')[1] = "exit" THEN "done" ELSE "prompt"
          /\ Words(rawInput')[1] = "status"
               => out' = <<parsedInput.exitStatus, Prompt>>
          /\ Words(rawInput')[1] = "cd" => Len(out') <= 2
          /\ \A i \in 1..Len(out') : \A p \in Children :
               out'[i] # "background pid is " \o ToString(p)]_vars

\* "status > outf" has printed the status text; outf does not exist
C14_Witness ==
  /\ pc = "prompt"
  /\ rawInput.toks = <<"status", ">", "outf">>
  /\ out = <<"exit value 1", Prompt>>
  /\ fs["outf"] = Absent
  /\ nextPid = 1

\* the token a redirection sign at i takes as its path
PathOf(toks, i) == IF i < Len(toks) THEN toks[i + 1] ELSE "(null)"
\* the places of the sign t that act as a redirection
SignsAt(toks, t) == {i \in 1..Len(toks) : toks[i] = t /\ ~IsPathAt(toks, i)}
\* the greatest member of a set of numbers
Last(S) == CHOOSE i \in S : \A j \in S : j <= i

C16_BackgroundOnlyIfTrailing ==
  (pc = "parsed" /\ parsedInput.isBackground = 1)
    => /\ rawInput.toks # <<>>
       /\ rawInput.toks[Len(rawInput.toks)] = "&"

\* C16 (amended): the background flag of the parsed job is set exactly when
\* some token of the line is "&" and is not the path of a redirection,
\* wherever in the line it stands.
C16_BackgroundIfAnywhere ==
  pc = "parsed" =>
    /\ parsedInput.isBackground \in {0, 1}
    /\ parsedInput.isBackground = 1 <=> SignsAt(rawInput.toks, "&") # {}

\* "ls & -l" has been parsed: a background job with the arguments ls, -l
C16_Witness ==
  /\ pc = "parsed"
  /\ rawInput.toks = <<"ls", "&", "-l">>
  /\ parsedInput.isBackground = 1
  /\ parsedInput.args = <<"ls", "-l">>

\* the last token of the line read is a "<" or ">" with no path after it
MissingPath(line) ==
  /\ line.first \notin {"\n", "#", NUL}
  /\ line.toks # <<>>
  /\ line.toks[Len(line.toks)] \in {"<", ">"}
  /\ ~IsPathAt(line.toks, Len(line.toks))

\* C17: a line that ends in "<" or ">" with no path is a parse error: the
\* shell reports it and drops the line, forking no child and opening no
\* file, leaves the status text as it is, and prompts again.
C17_MissingPathIsParseError ==
  [][(LineRead /\ MissingPath(rawInput'))
       => /\ UNCHANGED <<child, nextPid, fs>>
          /\ parsedInput'.exitStatus = parsedInput.exitStatus
          /\ pc' = "prompt"
          /\ Len(out') >= 2]_vars

\* C18: the number of arguments stored never exceeds 512, and no write to
\* args, the NULL written at args[argCount] after the loop included, goes
\* past its 512 slots (the indices 0..511); a line with more arguments is
\* rejected.
C18_ArgumentsWithinArray ==
  /\ parsedInput.argCount <= 512
  /\ pc = "parsed" => parsedInput.argCount <= 511

\* the job names an input file that open cannot open: no such file, or no
\* path at all
InputUnopenable(j) ==
  j.isInput = 1 /\ (j.inFile \notin FileNames \/ fs[j.inFile] = Absent)

\* C19: a child whose input file cannot be opened prints
\* "smallsh: cannot open <path> for input" and exits with code 1 (unless a
\* signal ends it before): it never runs the command and opens, creates and
\* truncates no output file; the shell, when the job is a foreground job
\* and the child exited, comes back to the prompt with the status text
\* "exit value 1".
C19_InputOpenFailure ==
  [][/\ \A p \in Children :
          (child[p].pc = "launch" /\ InputUnopenable(child[p])
             /\ child'[p] # child[p])
            => /\ child'[p].pc = "zombie"
               /\ fs' = fs
               /\ \/ child'[p].wstatus \in {SIGINT, SIGTERM}
                  \/ /\ child'[p].wstatus = 1 * 256
                     /\ child'[p].msgs =
                          <<"smallsh: cannot open " \o child[p].inFile \o " for input">>
     /\ (pc = "reap" /\ pc' = "prompt" /\ parsedInput.isBackground = 0
           /\ InputUnopenable(parsedInput))
          => /\ prev'.wstatus \in {1 * 256, SIGINT, SIGTERM}
             /\ prev'.wstatus = 1 * 256
                  => parsedInput'.exitStatus = "exit value 1"]_vars

\* the prompt after "prog < noin > in": the status text is "exit value 1",
\* the file in still holds its data
C19_Witness ==
  /\ pc = "prompt"
  /\ rawInput.toks = <<"prog", "<", "noin", ">", "in">>
  /\ prev.kind = "fg"
  /\ prev.wstatus = 1 * 256
  /\ parsedInput.exitStatus = "exit value 1"
  /\ fs["in"] = "data"

\* the commands that name no program
NoProgram == {"nocmd", Garbage}

\* C20: a child whose command cannot be run prints
\* "<command>: no such file or directory" after the redirections and exits
\* with code 1 (unless a signal ends it before); the shell sees a child
\* that exited, not one ended by a signal: after a foreground launch it is
\* back at the prompt with the status text "exit value 1".
C20_ExecFailure ==
  [][/\ \A p \in Children :
          (child[p].pc = "launch" /\ child[p].cmd \in NoProgram
             /\ ~InputUnopenable(child[p]) /\ child'[p] # child[p])
            => /\ child'[p].pc = "zombie"
               /\ \/ child'[p].wstatus \in {SIGINT, SIGTERM}
                  \/ /\ child'[p].wstatus = 1 * 256
                     /\ child'[p].msgs # <<>>
                     /\ child'[p].msgs[Len(child'[p].msgs)] =
                          child[p].cmd \o ": no such file or directory"
     /\ (pc = "reap" /\ pc' = "prompt" /\ parsedInput.isBackground = 0
           /\ parsedInput.args # <<>> /\ parsedInput.args[1] \in NoProgram)
          => /\ prev'.wstatus \in {1 * 256, SIGINT, SIGTERM}
             /\ prev'.wstatus = 1 * 256
                  => /\ parsedInput'.exitStatus = "exit value 1"
                     /\ \A i \in 1..Len(out') : \A n \in AnySignal :
                          out'[i] # "terminated by signal " \o ToString(n) \o "."]_vars

\* the prompt after the foreground command "nocmd", which is no program
C20_Witness ==
  /\ pc = "prompt"
  /\ rawInput.toks = <<"nocmd">>
  /\ prev.kind = "fg"
  /\ prev.wstatus = 1 * 256
  /\ parsedInput.exitStatus = "exit value 1"
  /\ out = <<Prompt>>

\* a member of a sequence
Among(text, msgs) == \E i \in 1..Len(msgs) : msgs[i] = text

\* C21: a child whose output file cannot be opened, or cannot be put on
\* descriptor 1, says so and goes on to run the command with the standard
\* output it got from the shell; whatever the outcome of open and dup2, a
\* child that has an output redirection and an input it can open leaves
\* the launch running the command (unless a signal ends it), with its
\* standard output either the file or, after the message, the terminal;
\* the shell then records the status the command itself ended with.
C21_OutputFailureNotFatal ==
  [][/\ \A p \in Children :
          (child[p].pc = "launch" /\ child[p].isOutput = 1
             /\ child[p].cmd = "prog" /\ ~InputUnopenable(child[p])
             /\ child'[p] # child[p])
            => \/ /\ child'[p].pc = "zombie"
                  /\ child'[p].wstatus \in {SIGINT, SIGTERM}
               \/ /\ child'[p].pc = "running"
                  /\ \/ /\ child'[p].stdout = child[p].outFile
                        /\ fs'[child[p].outFile] # Absent
                        /\ ~Among("Error copying file descriptor.", child'[p].msgs)
                     \/ /\ child'[p].stdout = "tty"
                        /\ Among("Error copying file descriptor.", child'[p].msgs)
     /\ (pc = "loop" /\ pc' = "reap" /\ parsedInput.isBackground = 0
           /\ Among("Error copying file descriptor.", child[pid].msgs))
          => /\ status' = child[pid].wstatus
             /\ status' \in {0, 255 * 256, SIGINT, SIGTERM}
             /\ parsedInput'.exitStatus =
                  "exit value " \o ToString((status' \div 256) % 256)]_vars

\* a command runs on the terminal after open failed for its output file,
\* which does not exist
C21_Witness ==
  \E p \in Children :
    /\ child[p].pc = "running"
    /\ child[p].isBackground = 0
    /\ child[p].stdout = "tty"
    /\ child[p].msgs =
         <<"Error opening output file...", "Error copying file descriptor.">>
    /\ fs["outf"] = Absent
\* C22: a background child that runs its command never has the shell's
\* input as standard input, whatever the outcome of open and dup2: it
\* reads the file named by the line or the null device.
C22_BackgroundInputNeverShell ==
  \A p \in Children :
    (child[p].pc = "running" /\ child[p].isBackground = 1)
      => child[p].stdin # "tty"
\* C23: when fork fails the shell prints "Forking error..." and the next
\* prompt and does nothing else: no child is created, none is waited for
\* or collected, no file is opened or created, the working directory and
\* the stored status text stay as they were.
C23_ForkFailure ==
  [][(pc = "prompt" /\ out' # out /\ Among("Forking error...", out'))
       => /\ out' = <<"Forking error...", Prompt>>
          /\ pc' = "prompt"
          /\ child' = child
          /\ nextPid' = nextPid
          /\ fs' = fs
          /\ cwd' = cwd
          /\ sigint' = sigint
          /\ status' = status
          /\ noticed' = noticed
          /\ parsedInput'.exitStatus = parsedInput.exitStatus]_vars

\* fork has failed while a terminated background child is waiting to be
\* collected and the stored status is that of an earlier command
C23_Witness ==
  /\ out = <<"Forking error...", Prompt>>
  /\ Zombies # {}
  /\ parsedInput.exitStatus = "exit value 255"
\* C24: the output file is truncated when it is opened: once a foreground
\* command with its output redirected to a file has run to its end, with no
\* background command about, the file holds what this run wrote and
\* nothing of an earlier run or of what the file held before.
C24_OutputTruncated ==
  [][\A p \in Children : \A f \in {"in", "outf"} :
       (/\ child[p].pc = "running"
        /\ child[p].stdout = f
        /\ \A q \in Children : child[q].isBackground = 0
        /\ child'[p].pc = "zombie"
        /\ child'[p].wstatus \in {0, 255 * 256})
         => fs'[f] = (IF child'[p].wstatus = 0 THEN "output" ELSE "e")]_vars

\* the second command of the session has written its short output to the
\* file and failed
C24_Witness ==
  /\ fs["outf"] = "e"
  /\ nextPid = 3
  /\ child[2].pc = "zombie"
  /\ child[2].wstatus = 255 * 256
  /\ child[1].pc = "reaped"
\* C25: a foreground command whose line redirects its input from a file
\* runs, if it runs at all, with that file as its standard input, whatever
\* the outcome of open and dup2 in the child.
C25_InputIsTheFile ==
  [][\A p \in Children :
       (/\ child[p].pc = "launch"
        /\ child[p].isInput = 1
        /\ child[p].isBackground = 0
        /\ child'[p].pc = "running")
         => child'[p].stdin = child[p].inFile]_vars
\* the shell has dealt with a line, or with a command that has ended, and
\* shows the prompt again
BackAtPrompt ==
  /\ pc' = "prompt"
  /\ \/ pc # "prompt"
     \/ <<out, prev, parsedInput, rawInput, cwd>>' #
          <<out, prev, parsedInput, rawInput, cwd>>

\* C26: every return to the prompt makes one non-blocking check for
\* terminated children, whatever the line was: if a terminated child is
\* waiting to be collected when the shell returns to the prompt, one is
\* collected on the way.
C26_EveryReturnChecks ==
  [][(BackAtPrompt /\ Zombies # {})
       => \E p \in Zombies : child'[p].pc = "reaped"]_vars
\* runCommand returns to main
CommandReturns == pc = "reap" /\ pc' = "prompt"

\* the children the non-blocking waits of the returning runCommand have
\* collected: those of the loop and the one of the last wait
CollectedNow ==
  collected \cup {p \in Zombies : child'[p].pc = "reaped"}

\* C27: every background child the shell collects is announced with a
\* "background pid <pid> is done: ..." line; none is collected silently:
\* when runCommand returns, what it has printed holds a completion notice
\* for each child its non-blocking waits collected.
C27_EveryCollectedAnnounced ==
  [][CommandReturns
       => \A p \in CollectedNow :
            \E i \in 1..Len(out') : out'[i] \in DoneNotices(p)]_vars

\* C28: while it deals with one line the shell collects at most one
\* background child with its non-blocking waits, also when the line
\* launches a background command.
C28_AtMostOneCollected ==
  [][CommandReturns => Cardinality(CollectedNow) <= 1]_vars
\* a step of the shell in runCommand: fork, a wait, the reports
LaunchStep ==
  \/ pc = "prompt" /\ pc' = "loop"
  \/ /\ pc \in {"loop", "reap"}
     /\ <<pc, pid, status, parsedInput, out>>' # <<pc, pid, status, parsedInput, out>>

\* C29: what a launch does to descriptors, files and signal handling it
\* does in the child, before the command is executed and in the order
\* signal disposition, input, output, execution; the shell's own standard
\* input and output, working directory and signal disposition are never
\* changed by a launch and the shell opens no file.
C29_LaunchEffectsInChild ==
  [][/\ LaunchStep
          => /\ stdio' = stdio
             /\ cwd' = cwd
             /\ fs' = fs
             /\ sigint'[Shell] = sigint[Shell]
             /\ \A p \in Children :
                  child[p].pc = "none" /\ child'[p].pc # "none"
                    => /\ child'[p].stdin = stdio.stdin
                       /\ child'[p].stdout = stdio.stdout
                       /\ sigint'[p] = sigint[Shell]
     /\ \A p \in Children :
          /\ (child[p].pc = "sigaction" /\ child'[p].pc = "launch")
               => /\ fs' = fs
                  /\ child'[p].stdin = child[p].stdin
                  /\ child'[p].stdout = child[p].stdout
                  /\ \A q \in Procs \ {p} : sigint'[q] = sigint[q]
          /\ (child[p].pc = "launch" /\ child'[p] # child[p])
               => /\ sigint' = sigint
                  /\ InputUnopenable(child[p]) => fs' = fs
          /\ (child[p].pc \notin {"running", "stopped"}
                /\ child'[p].pc = "running")
               => child[p].pc = "launch"
     /\ fs' # fs
          => \E p \in Children :
               child[p].pc \in {"launch", "running"} /\ child'[p] # child[p]]_vars

\* a command runs with both redirections in place while the shell waits
\* for it on the terminal
C29_Witness ==
  /\ pc = "loop"
  /\ stdio = [stdin |-> "tty", stdout |-> "tty"]
  /\ cwd = "start"
  /\ sigint[Shell] = "SIG_IGN"
  /\ \E p \in Children :
       /\ child[p].pc = "running"
       /\ child[p].stdin = "in"
       /\ child[p].stdout = "outf"
       /\ sigint[p] = "SIG_DFL"
\* the chunks of a ciphertext file: the length of chunk t and the number of
\* its first byte among the bytes the client sends (each round sends the
\* chunk and then as many bytes of the key)
ChunkLength(t) == IF otp.len - t * 255 < 255 THEN otp.len - t * 255 ELSE 255
ChunkStart(t) == 2 * 255 * t

\* the daemon holds chunk t as its ciphertext and the key bytes of chunk t
\* as its key
HoldsChunk(t) ==
  /\ ChunkLength(t) > 0
  /\ otp.ctFrom = ChunkStart(t)
  /\ otp.m = ChunkLength(t)
  /\ otp.keyFrom = ChunkStart(t) + ChunkLength(t)
  /\ otp.keyGot = ChunkLength(t)

\* the client waits for a reply, the daemon for more bytes, and nothing is
\* on its way in either direction
BothWait ==
  /\ otp.cpc = "recv"
  /\ otp.dpc \in {"readCt", "readKey"}
  /\ otp.flight = <<>> /\ otp.avail = 0
  /\ otp.dflight = <<>> /\ otp.davail = 0

\* C30: however the client's two writes of a round and the daemon's two
\* reads interleave, what the daemon decodes is one chunk of the ciphertext
\* with the key bytes of that chunk, never key bytes taken for ciphertext,
\* and the two never wait for each other.
C30_ChunkPairedWithItsKey ==
  /\ otp.dpc = "write" => \E t \in 0..(otp.len \div 255) : HoldsChunk(t)
  /\ ~BothWait
\* the alphabet in the order of its values: A is 0, ..., Z is 25, the space
\* is 26
Alphabet ==
  <<65, 66, 67, 68, 69, 70, 71, 72, 73, 74, 75, 76, 77, 78, 79, 80, 81, 82,
    83, 84, 85, 86, 87, 88, 89, 90, 32>>
ValueOf(b) == CHOOSE v \in 0..26 : Alphabet[v + 1] = b

\* C31: once a message is decoded, every byte the client has printed,
\* other than the last byte of the whole message, is the symbol whose value
\* is the value of the ciphertext byte minus the value of the key byte,
\* modulo 27; the last byte is a newline; this for messages of every
\* length, longer than one chunk of 255 bytes included.
C31_DecodesEveryPosition ==
  dec.pc = "done" /\ dec.ciphertext # <<>>
    => /\ Len(dec.printed) = Len(dec.ciphertext)
       /\ dec.printed[Len(dec.printed)] = 10
       /\ \A i \in 1..(Len(dec.ciphertext) - 1) :
            dec.printed[i] =
              Alphabet[((ValueOf(dec.ciphertext[i]) - ValueOf(dec.key[i])) % 27) + 1]
\* the rooms, and the rooms a room's file lists as its connections
RoomIds == 0..6
ConnectionsOf(r) ==
  {adv.roomArray[r].adjacentRooms[k] : k \in 0..(adv.roomArray[r].counter - 1)}

\* the rooms one can walk to from the rooms of a set in at most n moves
RECURSIVE Within(_, _)
Within(rooms, n) ==
  IF n = 0 THEN rooms
  ELSE Within(rooms \cup UNION {ConnectionsOf(r) : r \in rooms}, n - 1)

====
